---- MODULE Spec2Model ----
(***************************************************************************)
(* Term location and highlighting in the graph editor component            *)
(* (packages/app/src/lib/components/graph-editor.js) together with the      *)
(* highlight store model (packages/app/src/lib/store/models/highlight.js). *)
(*                                                                         *)
(* Texts are TLA+ strings.  Offsets, line indices and columns are 0-based, *)
(* as in the JavaScript source; the helpers below convert to the 1-based   *)
(* SubSeq.  The editor text is `content` followed by `padLines` empty      *)
(* lines, so that documents above the line ceiling can be represented      *)
(* without materialising ten thousand characters.                          *)
(*                                                                         *)
(* Three specifications: Spec follows one component through highlight      *)
(* requests, update cycles, scroll timers and the clock; SpecLocate makes  *)
(* one locate call on every document of up to MaxLines lines of LinePool,  *)
(* with every quad snapshot, model, term and context; SpecContextLines     *)
(* makes one _findContextLines call on lists of repeated lines.            *)
(***************************************************************************)
EXTENDS Integers, Sequences, FiniteSets, TLC

VARIABLES
    content,            \* doc.getValue() without the trailing empty lines
    padLines,           \* number of trailing empty lines of the document
    quads,              \* this.quads: [isArray, items], items a sequence of [subject, predicate]
    model,              \* this.model: "shapesGraph" or "dataGraph"
    shapesGraphHighlight, \* store: state.highlight.shapesGraphHighlight
    dataGraphHighlight, \* store: state.highlight.dataGraphHighlight
    timestamp,          \* store: state.highlight.timestamp
    now,                \* the value Date.now() returns
    editorReady,        \* this._editor has been set by firstUpdated
    highlightTerm,      \* property mapped from the store
    highlightContext,   \* property mapped from the store
    highlightTimestamp, \* property mapped from the store
    changedTimestamp,   \* changedProperties.has("highlightTimestamp") of the pending update
    updatePending,      \* a Lit update cycle has been requested and not yet run
    highlightMarkers,   \* this._highlightMarkers
    docMarks,           \* the marks present in the CodeMirror document
    scrollLockTimeout,  \* this._scrollLockTimeout: a timer id, 0 for null
    timers,             \* the pending setTimeout callbacks
    cursor,             \* the caret offset, -1 before any setCursor
    scrollTop,          \* container.scrollTop: [req, target] of the callback that set it, and
                        \* latest, the number of requests applied when it ran
    applySeq,           \* number of _applyHighlight calls made so far
    result,             \* what the latest locate call returned and how
    ctxLines,           \* input list of lines of a _findContextLines call
    ctxResult           \* what the latest _findContextLines call returned

vars == <<content, padLines, quads, model, shapesGraphHighlight, dataGraphHighlight,
          timestamp, now, editorReady, highlightTerm, highlightContext,
          highlightTimestamp, changedTimestamp, updatePending, highlightMarkers,
          docMarks, scrollLockTimeout, timers, cursor, scrollTop, applySeq, result,
          ctxLines, ctxResult>>

Null == "null"

(***************************************************************************)
(* JavaScript string primitives                                            *)
(***************************************************************************)
\* s[i]; the empty string stands for undefined
CharAt(s, i) == IF i >= 0 /\ i < Len(s) THEN SubSeq(s, i + 1, i + 1) ELSE ""

\* s.substring(a, b), for a <= b
Substring(s, a, b) ==
    IF a >= b \/ a >= Len(s) \/ b <= 0 THEN ""
    ELSE SubSeq(s, (IF a < 0 THEN 0 ELSE a) + 1, IF b > Len(s) THEN Len(s) ELSE b)

StartsWith(s, p) == Len(p) <= Len(s) /\ SubSeq(s, 1, Len(p)) = p

\* the least element of a non-empty set of offsets, -1 for the empty set
FirstOf(hits) == IF hits = {} THEN -1 ELSE CHOOSE i \in hits : \A j \in hits : i <= j

\* the greatest element of a non-empty set of offsets, -1 for the empty set
LastOf(hits) == IF hits = {} THEN -1 ELSE CHOOSE i \in hits : \A j \in hits : i >= j

\* s.indexOf(v, from), for from >= 0
IndexOf(s, v, from) ==
    FirstOf({i \in from..(Len(s) - Len(v)) : SubSeq(s, i + 1, i + Len(v)) = v})

\* s.lastIndexOf(v, from); a negative from counts as 0
LastIndexOf(s, v, from) ==
    LastOf({i \in 0..(IF from < 0 THEN 0 ELSE from) :
                i + Len(v) <= Len(s) /\ SubSeq(s, i + 1, i + Len(v)) = v})

Includes(s, v) == IndexOf(s, v, 0) # -1

\* /\s/.test(c)
IsSpace(c) == c \in {" ", "\t", "\n", "\r"}

\* /[a-zA-Z0-9_]/ on one character
IsWordChar(c) ==
    c \in {"A", "B", "C", "D", "E", "F", "G", "H", "I", "J", "K", "L", "M", "N", "O",
           "P", "Q", "R", "S", "T", "U", "V", "W", "X", "Y", "Z",
           "a", "b", "c", "d", "e", "f", "g", "h", "i", "j", "k", "l", "m", "n", "o",
           "p", "q", "r", "s", "t", "u", "v", "w", "x", "y", "z", "0", "1", "2", "3",
           "4", "5", "6", "7", "8", "9", "_"}

\* the offset of the first character of s from i on that is not white space
RECURSIVE SkipSpaces(_, _)
SkipSpaces(s, i) == IF IsSpace(CharAt(s, i)) THEN SkipSpaces(s, i + 1) ELSE i

\* the offset after the last character of s[0..i-1] that is not white space
RECURSIVE SkipSpacesBack(_, _)
SkipSpacesBack(s, i) == IF IsSpace(CharAt(s, i - 1)) THEN SkipSpacesBack(s, i - 1) ELSE i

\* s.trim()
Trim(s) == Substring(s, SkipSpaces(s, 0), SkipSpacesBack(s, Len(s)))

\* s.split('\n')
RECURSIVE SplitLinesFrom(_, _)
SplitLinesFrom(s, from) ==
    IF IndexOf(s, "\n", from) = -1 THEN <<Substring(s, from, Len(s))>>
    ELSE <<Substring(s, from, IndexOf(s, "\n", from))>>
         \o SplitLinesFrom(s, IndexOf(s, "\n", from) + 1)

\* s.split(sep).pop(): what follows the last sep of s
SplitPop(s, sep) == Substring(s, LastIndexOf(s, sep, Len(s)) + 1, Len(s))

\* lines.join('\n')
RECURSIVE JoinLines(_)
JoinLines(ls) ==
    IF Len(ls) = 0 THEN ""
    ELSE IF Len(ls) = 1 THEN ls[1]
    ELSE ls[1] \o "\n" \o JoinLines(Tail(ls))

\* arr.filter((v, i, arr) => arr.indexOf(v) === i)
Dedupe(seq) ==
    SelectSeq([i \in 1..Len(seq) |-> [v |-> seq[i], first |-> \A j \in 1..(i - 1) : seq[j] # seq[i]]],
              LAMBDA e : e.first)

Values(entries) == [i \in 1..Len(entries) |-> entries[i].v]

\* an array left unfiltered
Unfiltered(seq) == seq

\* arr.filter(Boolean): null and the empty string are dropped
FilterBoolean(seq) == SelectSeq(seq, LAMBDA v : v # Null /\ v # "")

\* arr.filter(Boolean).filter((v, i, arr) => arr.indexOf(v) === i)
Distinct(seq) == Values(Dedupe(FilterBoolean(seq)))

Range(seq) == {seq[i] : i \in 1..Len(seq)}

(***************************************************************************)
(* shrink() of @zazuko/prefixes: the longest namespace of the table that   *)
(* starts the IRI is replaced by its prefix; the empty string when none    *)
(* does.  The built-in table is consulted in both calls of                 *)
(* `shrink(t, this.customPrefixes) || shrink(t)`.                          *)
(***************************************************************************)
CustomPrefixes == {[prefix |-> "ex", ns |-> "e/"]}

BuiltinPrefixes == {[prefix |-> "sh", ns |-> "w3/shacl#"]}

Longest(cands) == CHOOSE e \in cands : \A f \in cands : Len(e.ns) >= Len(f.ns)

Shrunk(iri, best) == best.prefix \o ":" \o Substring(iri, Len(best.ns), Len(iri))

ShrinkAmong(iri, cands) == IF cands = {} THEN "" ELSE Shrunk(iri, Longest(cands))

ShrinkWith(iri, table) == ShrinkAmong(iri, {e \in table : StartsWith(iri, e.ns)})

\* shrink(term, this.customPrefixes) || shrink(term)
Shrink(term) ==
    IF ShrinkWith(term, CustomPrefixes \cup BuiltinPrefixes) # ""
    THEN ShrinkWith(term, CustomPrefixes \cup BuiltinPrefixes)
    ELSE ShrinkWith(term, BuiltinPrefixes)

\* term.split('/').pop().split('#').pop()
LocalPart(term) == SplitPop(SplitPop(term, "/"), "#")

(***************************************************************************)
(* content.match(/@prefix\s+(\w+):\s+<namespace>/): the prefix label of    *)
(* the leftmost @prefix declaration of the namespace, "" when none.        *)
(***************************************************************************)
RECURSIVE SkipWord(_, _)
SkipWord(s, i) == IF IsWordChar(CharAt(s, i)) THEN SkipWord(s, i + 1) ELSE i

\* the label, given where the white space (w0), the label (w1) and the blank (b0) end
PrefixLabel(s, at, iri, w0, w1, b0) ==
    IF /\ Substring(s, at, at + 7) = "@prefix"
       /\ w0 > at + 7
       /\ w1 > w0
       /\ CharAt(s, w1) = ":"
       /\ b0 > w1 + 1
       /\ Substring(s, b0, b0 + Len(iri)) = iri
    THEN Substring(s, w0, w1)
    ELSE ""

PrefixLabelFrom(s, at, iri, w0, w1) ==
    PrefixLabel(s, at, iri, w0, w1, SkipSpaces(s, w1 + 1))

PrefixLabelAfter(s, at, iri, w0) == PrefixLabelFrom(s, at, iri, w0, SkipWord(s, w0))

\* the label matched when the pattern matches at offset at, "" otherwise
PrefixDeclAt(s, at, iri) ==
    IF at < 0 THEN "" ELSE PrefixLabelAfter(s, at, iri, SkipSpaces(s, at + 7))

DetectPrefix(s, namespace) ==
    PrefixDeclAt(s, FirstOf({i \in 0..(Len(s) - 7) :
                                PrefixDeclAt(s, i, "<" \o namespace \o ">") # ""}),
                 "<" \o namespace \o ">")

(***************************************************************************)
(* The document: content followed by padLines empty lines                  *)
(***************************************************************************)
\* content.split('\n') without the trailing empty lines
Lines(text) == SplitLinesFrom(text, 0)

\* lines.length
LineCount(lines) == Len(lines) + padLines

\* lines[i]
LineAt(lines, i) == IF i >= 0 /\ i < Len(lines) THEN lines[i + 1] ELSE ""

\* the character offset of the start of line lineIndex:
\*   for (i = 0; i < lineIndex; i++) charOffset += lines[i].length + 1
RECURSIVE OffsetOfLine(_, _)
OffsetOfLine(lines, lineIndex) ==
    IF lineIndex <= 0 THEN 0
    ELSE OffsetOfLine(lines, lineIndex - 1) + Len(LineAt(lines, lineIndex - 1)) + 1

\* doc.posFromIndex(offset).line, for an offset within the content
LineOfOffset(lines, offset) ==
    LastOf({i \in 0..(Len(lines) - 1) : OffsetOfLine(lines, i) <= offset})

(***************************************************************************)
(* _isPredicatePosition                                                    *)
(***************************************************************************)
\* (s.match(/"""/g) || []).length on s[0 .. position-1]
RECURSIVE CountTripleQuotes(_, _, _)
CountTripleQuotes(s, from, position) ==
    IF from + 3 > position THEN 0
    ELSE IF SubSeq(s, from + 1, from + 3) = "\"\"\""
         THEN 1 + CountTripleQuotes(s, from + 3, position)
         ELSE CountTripleQuotes(s, from + 1, position)

\* the quote-counting loop, i running over line[0 .. posInLine-1]; the line is
\* text[lineStart .. lineEnd-1], `at` is lineStart + i and position lineStart + posInLine
RECURSIVE QuoteCount(_, _, _, _, _)
QuoteCount(text, lineStart, lineEnd, position, at) ==
    IF at >= position THEN 0
    ELSE IF at + 3 <= lineEnd /\ SubSeq(text, at + 1, at + 3) = "\"\"\""
         THEN QuoteCount(text, lineStart, lineEnd, position, at + 3)
    ELSE IF CharAt(text, at) = "\"" /\ (at = lineStart \/ CharAt(text, at - 1) # "\\")
         THEN 1 + QuoteCount(text, lineStart, lineEnd, position, at + 1)
         ELSE QuoteCount(text, lineStart, lineEnd, position, at + 1)

\* the offset at which the line of text[position] ends
EndOfLine(text, position) ==
    IF IndexOf(text, "\n", position) = -1 THEN Len(text) ELSE IndexOf(text, "\n", position)

\* the match is followed, after optional white space, by a colon
ColonAt(text, j) == j < Len(text) /\ CharAt(text, j) = ":"

\* a classifier without the JSON-LD key rule
NeverJsonLdKey(text, position, matchLength) == FALSE

IsJsonLdKey(text, position, matchLength) ==
    IF CharAt(text, position) = "\""
    THEN ColonAt(text, SkipSpaces(text, position + matchLength))
    ELSE /\ position > 0
         /\ CharAt(text, position - 1) = "\""
         /\ position + matchLength < Len(text)
         /\ CharAt(text, position + matchLength) = "\""
         /\ ColonAt(text, SkipSpaces(text, position + matchLength + 1))

\* the Turtle/TriG rule on the characters around the match
StructuralPosition(text, position, matchLength, before, after) ==
    \/ /\ IsSpace(before) \/ before \in {";", "{"} \/ position = 0
       /\ IsSpace(after)
    \/ /\ CharAt(text, position) = "<"
       /\ CharAt(text, position + matchLength - 1) = ">"

\* an odd number of quotes on the line before the match
InQuotedString(text, position, lineStart, lineEnd) ==
    QuoteCount(text, lineStart, lineEnd, position, lineStart) % 2 = 1

IsPredicatePosition(text, position, matchLength) ==
    IF CountTripleQuotes(text, 0, position) % 2 = 1 THEN FALSE
    ELSE IF IsJsonLdKey(text, position, matchLength) THEN TRUE
    ELSE IF InQuotedString(text, position, LastIndexOf(text, "\n", position - 1) + 1,
                           EndOfLine(text, position))
         THEN FALSE
    ELSE StructuralPosition(text, position, matchLength,
                            IF position > 0 THEN CharAt(text, position - 1) ELSE "\n",
                            IF position + matchLength < Len(text)
                            THEN CharAt(text, position + matchLength) ELSE "\n")

(***************************************************************************)
(* Results.  A locate call returns `matches`, the start positions of the   *)
(* ranges it marked, in the order it marked them; the model keeps each     *)
(* match with the end of its mark as a range [from, to).  hung records a   *)
(* scanning loop that does not advance, steps the strategies that ran.     *)
(***************************************************************************)
NoPosition == -1

MarkRange(index, length) == [from |-> index, to |-> index + length]

LocateResult(ranges, contextLinePosition, hung, steps) ==
    [matches |-> ranges, contextLinePosition |-> contextLinePosition,
     hung |-> hung, steps |-> steps]

EmptyResult == LocateResult(<<>>, NoPosition, FALSE, <<>>)

NoRanges == [ranges |-> <<>>, hung |-> FALSE]

\* the safetyCounter limit of the in-context text scan
SafetyLimit == 100

(***************************************************************************)
(* The scanning loop shared by the matchers:                               *)
(*   while (index < s.length) { found = s.indexOf(v, index);               *)
(*     if (found === -1) break;                                            *)
(*     if (isPredicatePosition(found)) mark; index = found + v.length }    *)
(* over s = text[base .. end-1] (the whole text, or one line of it).  A    *)
(* loop that runs more rounds than s has characters never ends (hung);     *)
(* with limit >= 0 the loop carries a safety counter and stops after that  *)
(* many rounds.                                                            *)
(***************************************************************************)
\* s.indexOf(v, index) as an offset of text, -1 when not found in s
IndexIn(text, end, v, index) ==
    FirstOf({i \in index..(end - Len(v)) : SubSeq(text, i + 1, i + Len(v)) = v})

Prepend(range, scan) == [ranges |-> <<range>> \o scan.ranges, hung |-> scan.hung]

RECURSIVE ScanLoop(_, _, _, _, _, _)
ScanRound(text, end, v, foundIndex, rounds, limit) ==
    IF foundIndex = -1 THEN NoRanges
    ELSE IF limit < 0 /\ rounds > Len(text) THEN [ranges |-> <<>>, hung |-> TRUE]
    ELSE IF IsPredicatePosition(text, foundIndex, Len(v))
         THEN Prepend(MarkRange(foundIndex, Len(v)),
                      ScanLoop(text, end, v, foundIndex + Len(v), rounds + 1, limit))
         ELSE ScanLoop(text, end, v, foundIndex + Len(v), rounds + 1, limit)

ScanLoop(text, end, v, index, rounds, limit) ==
    IF index >= end \/ (limit >= 0 /\ rounds >= limit) THEN NoRanges
    ELSE ScanRound(text, end, v, IndexIn(text, end, v, index), rounds, limit)

Both(first, rest) ==
    [ranges |-> first.ranges \o rest.ranges, hung |-> first.hung \/ rest.hung]

\* for (const variant of variants) { the scanning loop }
RECURSIVE ScanVariants(_, _, _, _, _)
ScanVariants(text, base, end, variants, limit) ==
    IF Len(variants) = 0 THEN NoRanges
    ELSE Both(ScanLoop(text, end, variants[1], base, 0, limit),
              ScanVariants(text, base, end, Tail(variants), limit))

(***************************************************************************)
(* _getPredicateStringsFromQuads: the Set of spellings, in insertion order *)
(***************************************************************************)
MatchingQuads(searchTerm, contextTerm) ==
    IF ~quads.isArray THEN <<>>
    ELSE SelectSeq(quads.items,
                   LAMBDA q : /\ q.predicate # ""
                              /\ q.predicate = searchTerm
                              /\ (contextTerm # Null => q.subject = contextTerm))

\* spellings of a predicate that hold its local name alone
WithLocalName(predicateValue, shrunk) ==
    <<"<" \o predicateValue \o ">", SplitPop(predicateValue, "/")>>

PredicateSpellings(predicateValue, shrunk) ==
    Values(Dedupe(
        <<"<" \o predicateValue \o ">">>
        \o (IF shrunk # "" /\ shrunk # predicateValue THEN <<shrunk>> ELSE <<>>)
        \o <<"\"" \o predicateValue \o "\"">>
        \o (IF shrunk # "" /\ shrunk # predicateValue
            THEN <<"\"" \o shrunk \o "\"">> ELSE <<>>)))

GetPredicateStringsFromQuads(searchTerm, contextTerm) ==
    IF Len(MatchingQuads(searchTerm, contextTerm)) = 0 THEN <<>>
    ELSE PredicateSpellings(searchTerm, Shrink(searchTerm))

(***************************************************************************)
(* The generic spellings of the text-fallback matchers                     *)
(***************************************************************************)
Quoted(seq) == [i \in 1..Len(seq) |-> "\"" \o seq[i] \o "\""]

PrefixedForms(searchTerm, shrunkForm, localPart) ==
    IF shrunkForm = "" \/ shrunkForm = searchTerm
    THEN (IF Includes(searchTerm, "schema.org")
          THEN <<"schema:" \o localPart, "sdo:" \o localPart>> ELSE <<>>)
         \o (IF Includes(searchTerm, "purl.org/dc")
             THEN <<"dc:" \o localPart, "dct:" \o localPart>> ELSE <<>>)
    ELSE <<>>

BaseVariants(searchTerm, shrunkForm, localPart) ==
    FilterBoolean(<<IF shrunkForm # searchTerm THEN shrunkForm ELSE Null>>
                  \o PrefixedForms(searchTerm, shrunkForm, localPart))

SearchVariants(searchTerm, baseVariants) ==
    Distinct(baseVariants \o Quoted(baseVariants)
             \o <<"<" \o searchTerm \o ">", "\"" \o searchTerm \o "\"">>)

FallbackSearchVariants(searchTerm) ==
    SearchVariants(searchTerm,
                   BaseVariants(searchTerm, Shrink(searchTerm), LocalPart(searchTerm)))

(***************************************************************************)
(* _findAndHighlightFallback                                               *)
(***************************************************************************)
FindAndHighlightFallback(text, searchTerm) ==
    ScanVariants(text, 0, Len(text), FallbackSearchVariants(searchTerm), -1)

(***************************************************************************)
(* _findAndHighlight                                                       *)
(***************************************************************************)
\* the candidates left in the order the spellings found them
Unsorted(seq) == seq

\* candidateOccurrences.sort((a, b) => a.index - b.index), a stable sort
SortByIndex(seq) ==
    [k \in 1..Len(seq) |->
        seq[CHOOSE i \in 1..Len(seq) :
                Cardinality({j \in 1..Len(seq) :
                                \/ seq[j].from < seq[i].from
                                \/ (seq[j].from = seq[i].from /\ j < i)}) = k - 1]]

\* every candidate, whatever the number of quads
AllCandidates(sorted, predicateCount) == sorted

\* predicateCount > 0 ? candidateOccurrences.slice(0, predicateCount) : candidateOccurrences
ToHighlight(sorted, predicateCount) ==
    IF predicateCount > 0 /\ predicateCount < Len(sorted)
    THEN SubSeq(sorted, 1, predicateCount)
    ELSE sorted

QuadBackedMatches(scan, predicateCount) ==
    [ranges |-> ToHighlight(SortByIndex(scan.ranges), predicateCount), hung |-> scan.hung]

\* the quad-backed matcher alone, also when the quads give no spelling
NoFallback(text, searchTerm, predicateStrings) ==
    QuadBackedMatches(ScanVariants(text, 0, Len(text), predicateStrings, -1),
                      Len(MatchingQuads(searchTerm, Null)))

FindAndHighlightWith(text, searchTerm, predicateStrings) ==
    IF Len(predicateStrings) = 0 THEN FindAndHighlightFallback(text, searchTerm)
    ELSE QuadBackedMatches(ScanVariants(text, 0, Len(text), predicateStrings, -1),
                           Len(MatchingQuads(searchTerm, Null)))

FindAndHighlight(text, searchTerm) ==
    FindAndHighlightWith(text, searchTerm, GetPredicateStringsFromQuads(searchTerm, Null))

(***************************************************************************)
(* _findContextLines                                                       *)
(***************************************************************************)
\* the number of collected indices above which a pass stops
ContextLineLimit == 10

\* a pass without the cap
NeverCapped(found) == FALSE

\* contextLineIndices.length > 10
CapReached(found) == Len(found) > ContextLineLimit

Max(a, b) == IF a >= b THEN a ELSE b

\* contextTerm.substring(0, Math.max(lastIndexOf('/'), lastIndexOf('#')) + 1)
NamespaceOf(term) ==
    Substring(term, 0, Max(LastIndexOf(term, "/", Len(term)),
                           LastIndexOf(term, "#", Len(term))) + 1)

ContextTermVariants(contextTerm, shrunkContext, detectedPrefix, localPart) ==
    Distinct(<<"<" \o contextTerm \o ">",
               IF shrunkContext # contextTerm THEN shrunkContext ELSE Null,
               IF detectedPrefix # "" THEN detectedPrefix \o ":" \o localPart ELSE Null,
               IF localPart # contextTerm THEN localPart ELSE Null>>)

PrefixedVariants(contextTerm, shrunken, localPart) ==
    Distinct(<<IF shrunken # contextTerm THEN shrunken ELSE Null, localPart>>
             \o (IF localPart # contextTerm
                 THEN <<"oa:" \o localPart, "ex:" \o localPart, "ns:" \o localPart>>
                 ELSE <<>>))

\* the test of the first pass on one line
PrimaryLineMatches(line, trimmed, variants) ==
    \E i \in 1..Len(variants) :
        /\ Includes(line, "<" \o variants[i] \o ">") \/ Includes(line, variants[i])
        /\ \/ StartsWith(trimmed, "<" \o variants[i] \o ">")
           \/ StartsWith(trimmed, variants[i])

\* the test of the relaxed pass on one line
RelaxedLineMatches(line, trimmed, variants) ==
    /\ Len(line) > 0
    /\ ~StartsWith(line, " ")
    /\ ~StartsWith(line, "\t")
    /\ \E i \in 1..Len(variants) :
          \/ StartsWith(trimmed, variants[i] \o " ")
          \/ StartsWith(trimmed, variants[i] \o "\t")
          \/ trimmed = variants[i]
          \/ StartsWith(trimmed, "<" \o variants[i] \o ">")
          \/ /\ StartsWith(trimmed, variants[i])
             /\ CharAt(trimmed, Len(variants[i])) # ""
             /\ ~IsWordChar(CharAt(trimmed, Len(variants[i])))

LineMatches(line, trimmed, variants, relaxed) ==
    IF relaxed THEN RelaxedLineMatches(line, trimmed, variants)
    ELSE PrimaryLineMatches(line, trimmed, variants)

\* one pass: for (lineIndex = 0; lineIndex < lines.length; lineIndex++) { ... }
RECURSIVE CollectContextLines(_, _, _, _, _)
AfterLine(lines, variants, relaxed, lineIndex, found) ==
    IF CapReached(found) THEN found
    ELSE CollectContextLines(lines, variants, relaxed, lineIndex + 1, found)

CollectContextLines(lines, variants, relaxed, lineIndex, found) ==
    IF lineIndex >= Len(lines) THEN found
    ELSE AfterLine(lines, variants, relaxed, lineIndex,
                   IF LineMatches(lines[lineIndex + 1], Trim(lines[lineIndex + 1]),
                                  variants, relaxed)
                   THEN Append(found, lineIndex) ELSE found)

\* if (contextLineIndices.length === 0) { the relaxed pass }
PrimaryOrRelaxed(lines, contextTerm, primary) ==
    IF Len(primary) # 0 THEN primary
    ELSE CollectContextLines(lines,
                             PrefixedVariants(contextTerm, Shrink(contextTerm),
                                              LocalPart(contextTerm)),
                             TRUE, 0, <<>>)

FindContextLines(lines, contextTerm) ==
    PrimaryOrRelaxed(lines, contextTerm,
        CollectContextLines(lines,
            ContextTermVariants(contextTerm, Shrink(contextTerm),
                                DetectPrefix(JoinLines(lines), NamespaceOf(contextTerm)),
                                LocalPart(contextTerm)),
            FALSE, 0, <<>>))

(***************************************************************************)
(* _buildLinesToSearch: the Set of line indices, which the insertions      *)
(* leave in ascending order                                                *)
(***************************************************************************)
\* how many lines from a context line on are looked at
SearchWindow == 20

Min(a, b) == IF a <= b THEN a ELSE b

\* no line ends the lines of a context
NeverNewSubject(line) == FALSE

\* the line starts at column 0, is not blank and is no directive
StartsNewSubject(line) ==
    /\ Len(line) > 0
    /\ ~StartsWith(line, " ")
    /\ ~StartsWith(line, "\t")
    /\ Len(Trim(line)) > 0
    /\ ~StartsWith(Trim(line), "@")

\* the indices one context line adds: i is added, then the break is tested
RECURSIVE LinesFrom(_, _, _)
LinesFrom(lines, lineIndex, i) ==
    IF i >= Min(lineIndex + SearchWindow, LineCount(lines)) THEN {}
    ELSE IF i > lineIndex /\ StartsNewSubject(LineAt(lines, i)) THEN {i}
    ELSE {i} \cup LinesFrom(lines, lineIndex, i + 1)

Ascending(set) ==
    [k \in 1..Cardinality(set) |->
        CHOOSE i \in set : Cardinality({j \in set : j < i}) = k - 1]

BuildLinesToSearch(lines, contextLineIndices) ==
    Ascending(UNION {LinesFrom(lines, contextLineIndices[k], contextLineIndices[k]) :
                        k \in 1..Len(contextLineIndices)})

(***************************************************************************)
(* _findAndHighlightShapePath                                              *)
(***************************************************************************)
ShPath == "sh:path "

ShaclPathIri == "<http://www.w3.org/ns/shacl#path> "

\* shrunkForm && shrunkForm !== searchTerm && shrunkForm.trim() !== ''
UsableShrunk(searchTerm, shrunkForm) ==
    shrunkForm # "" /\ shrunkForm # searchTerm /\ Trim(shrunkForm) # ""

AlternativeForms(searchTerm, shrunkForm, localPart) ==
    IF /\ shrunkForm = "" \/ shrunkForm = searchTerm \/ Trim(shrunkForm) = ""
       /\ Includes(searchTerm, "schema.org")
    THEN <<"schema:" \o localPart, "sdo:" \o localPart>>
    ELSE <<>>

PathForms(lead, searchTerm, shrunkForm, alternativeForms) ==
    <<lead \o "<" \o searchTerm \o ">",
      IF UsableShrunk(searchTerm, shrunkForm) THEN lead \o shrunkForm ELSE Null>>
    \o [i \in 1..Len(alternativeForms) |-> lead \o alternativeForms[i]]

ShapePathVariantsOf(searchTerm, shrunkForm, alternativeForms) ==
    FilterBoolean(PathForms(ShPath, searchTerm, shrunkForm, alternativeForms)
                  \o PathForms(ShaclPathIri, searchTerm, shrunkForm, alternativeForms))

ShapePathVariants(searchTerm, shrunkForm, localPart) ==
    ShapePathVariantsOf(searchTerm, shrunkForm,
                        AlternativeForms(searchTerm, shrunkForm, localPart))

\* valueString: what follows the path keyword in the variant
ValueString(variant) ==
    IF StartsWith(variant, ShPath) THEN Substring(variant, Len(ShPath), Len(variant))
    ELSE IF StartsWith(variant, ShaclPathIri)
         THEN Substring(variant, Len(ShaclPathIri), Len(variant))
         ELSE ""

\* the mark of one line: the value of the first variant the line contains
RECURSIVE ShapePathMarkInLine(_, _, _)
ShapePathMarkInLine(line, charOffset, variants) ==
    IF Len(variants) = 0 THEN <<>>
    ELSE IF /\ IndexOf(line, variants[1], 0) # -1
            /\ ValueString(variants[1]) # ""
            /\ IndexOf(variants[1], ValueString(variants[1]), 0) # -1
         THEN <<MarkRange(charOffset + IndexOf(line, variants[1], 0)
                              + IndexOf(variants[1], ValueString(variants[1]), 0),
                          Len(ValueString(variants[1])))>>
         ELSE ShapePathMarkInLine(line, charOffset, Tail(variants))

RECURSIVE ShapePathMarks(_, _, _, _)
ShapePathMarks(lines, linesToSearch, variants, k) ==
    IF k > Len(linesToSearch) THEN <<>>
    ELSE ShapePathMarkInLine(LineAt(lines, linesToSearch[k]),
                             OffsetOfLine(lines, linesToSearch[k]), variants)
         \o ShapePathMarks(lines, linesToSearch, variants, k + 1)

FindAndHighlightShapePath(lines, searchTerm, contextLineIndices) ==
    IF Len(contextLineIndices) = 0
    THEN LocateResult(<<>>, NoPosition, FALSE, <<"shapePath">>)
    ELSE LocateResult(
             ShapePathMarks(lines, BuildLinesToSearch(lines, contextLineIndices),
                            ShapePathVariants(searchTerm, Shrink(searchTerm),
                                              LocalPart(searchTerm)), 1),
             OffsetOfLine(lines, contextLineIndices[1]), FALSE, <<"shapePath">>)

(***************************************************************************)
(* _findAndHighlightSubject                                                *)
(***************************************************************************)
\* searchTerm.substring(0, searchTerm.lastIndexOf('#') + 1)
HashNamespaceOf(term) == Substring(term, 0, LastIndexOf(term, "#", Len(term)) + 1)

SubjectVariants(searchTerm, shrunkForm, detectedPrefix, localPart) ==
    FilterBoolean(<<"<" \o searchTerm \o ">",
                    IF shrunkForm # searchTerm THEN shrunkForm ELSE Null,
                    IF detectedPrefix # "" THEN detectedPrefix \o ":" \o localPart ELSE Null,
                    IF localPart # searchTerm THEN localPart ELSE Null>>)

\* the mark of one line: the first variant that starts the trimmed line as a word
RECURSIVE SubjectMarkInLine(_, _, _, _)
SubjectMarkInLine(line, trimmed, charOffset, variants) ==
    IF Len(variants) = 0 THEN <<>>
    ELSE IF \/ StartsWith(trimmed, variants[1] \o " ")
            \/ StartsWith(trimmed, variants[1] \o "\t")
            \/ trimmed = variants[1]
         THEN <<MarkRange(charOffset + IndexOf(line, variants[1], 0), Len(variants[1]))>>
         ELSE SubjectMarkInLine(line, trimmed, charOffset, Tail(variants))

RECURSIVE SubjectMarks(_, _, _)
SubjectMarks(lines, variants, lineIndex) ==
    IF lineIndex >= Len(lines) THEN <<>>
    ELSE SubjectMarkInLine(lines[lineIndex + 1], Trim(lines[lineIndex + 1]),
                           OffsetOfLine(lines, lineIndex), variants)
         \o SubjectMarks(lines, variants, lineIndex + 1)

FindAndHighlightSubject(text, searchTerm) ==
    SubjectMarks(Lines(text),
                 SubjectVariants(searchTerm, Shrink(searchTerm),
                                 DetectPrefix(text, HashNamespaceOf(searchTerm)),
                                 LocalPart(searchTerm)),
                 0)

(***************************************************************************)
(* _findAndHighlightInContext                                              *)
(***************************************************************************)
\* the number of lines above which the text search of a context gives up
MaxDocumentLines == 10000

\* lines.length > 10000
TooManyLines(lines) == LineCount(lines) > MaxDocumentLines

\* for each line of linesToSearch, in line order: for each variant { the scanning loop }
RECURSIVE ScanContextLines(_, _, _, _, _, _)
ScanContextLines(text, lines, linesToSearch, variants, limit, k) ==
    IF k > Len(linesToSearch) THEN NoRanges
    ELSE Both(ScanVariants(text, OffsetOfLine(lines, linesToSearch[k]),
                           OffsetOfLine(lines, linesToSearch[k])
                               + Len(LineAt(lines, linesToSearch[k])),
                           variants, limit),
              ScanContextLines(text, lines, linesToSearch, variants, limit, k + 1))

\* the spellings of the context term tried when the property was not found
ContextAnchorVariants(contextTerm) ==
    Distinct(<<contextTerm, Shrink(contextTerm),
               SplitPop(contextTerm, "/"), SplitPop(contextTerm, "#")>>)

\* a context line on which no spelling of the context term is marked
NoAnchorMark(line, offsetToLine, variants) == <<>>

RECURSIVE AnchorMarkInLine(_, _, _)
AnchorMarkInLine(line, offsetToLine, variants) ==
    IF Len(variants) = 0 THEN <<>>
    ELSE IF IndexOf(line, variants[1], 0) # -1
         THEN <<MarkRange(offsetToLine + IndexOf(line, variants[1], 0), Len(variants[1]))>>
         ELSE AnchorMarkInLine(line, offsetToLine, Tail(variants))

RECURSIVE AnchorMarks(_, _, _, _)
AnchorMarks(lines, contextLineIndices, variants, k) ==
    IF k > Len(contextLineIndices) THEN <<>>
    ELSE AnchorMarkInLine(LineAt(lines, contextLineIndices[k]),
                          OffsetOfLine(lines, contextLineIndices[k]), variants)
         \o AnchorMarks(lines, contextLineIndices, variants, k + 1)

\* what is returned once the text search of the context lines has run
AfterTextScan(lines, contextTerm, contextLineIndices, steps, textScan) ==
    IF Len(textScan.ranges) > 0
    THEN LocateResult(textScan.ranges, OffsetOfLine(lines, contextLineIndices[1]),
                      textScan.hung, steps \o <<"text">>)
    ELSE LocateResult(AnchorMarks(lines, contextLineIndices,
                                  ContextAnchorVariants(contextTerm), 1),
                      OffsetOfLine(lines, contextLineIndices[1]),
                      textScan.hung, steps \o <<"text", "anchor">>)

\* what follows the quad-backed search: its matches, or the text fallback
AfterQuadScan(text, lines, searchTerm, contextTerm, contextLineIndices, linesToSearch, steps, quadScan) ==
    IF Len(quadScan.ranges) > 0 \/ quadScan.hung
    THEN LocateResult(quadScan.ranges, OffsetOfLine(lines, contextLineIndices[1]),
                      quadScan.hung, steps)
    ELSE IF TooManyLines(lines)
         THEN LocateResult(<<>>, NoPosition, FALSE, steps \o <<"guard">>)
    ELSE IF Len(contextLineIndices) = 0
         THEN LocateResult(<<>>, NoPosition, FALSE, steps \o <<"noContext">>)
    ELSE AfterTextScan(lines, contextTerm, contextLineIndices, steps,
                       ScanContextLines(text, lines, linesToSearch,
                                        FallbackSearchVariants(searchTerm),
                                        SafetyLimit, 1))

DataInContext(text, lines, searchTerm, contextTerm, predicateStrings, contextLineIndices, linesToSearch) ==
    IF Len(predicateStrings) > 0 /\ Len(contextLineIndices) > 0
    THEN AfterQuadScan(text, lines, searchTerm, contextTerm, contextLineIndices,
                       linesToSearch, <<"quads">>,
                       ScanContextLines(text, lines, linesToSearch, predicateStrings, -1, 1))
    ELSE AfterQuadScan(text, lines, searchTerm, contextTerm, contextLineIndices,
                       linesToSearch, <<>>, NoRanges)

DataInContextLines(text, lines, searchTerm, contextTerm, contextLineIndices) ==
    DataInContext(text, lines, searchTerm, contextTerm,
                  GetPredicateStringsFromQuads(searchTerm, contextTerm),
                  contextLineIndices, BuildLinesToSearch(lines, contextLineIndices))

\* the strategies of the data model, whatever the model
IgnoringModel(text, lines, searchTerm, contextTerm, contextLineIndices) ==
    DataInContextLines(text, lines, searchTerm, contextTerm, contextLineIndices)

InContextOf(text, lines, searchTerm, contextTerm, contextLineIndices) ==
    IF model = "shapesGraph"
    THEN FindAndHighlightShapePath(lines, searchTerm, contextLineIndices)
    ELSE DataInContextLines(text, lines, searchTerm, contextTerm, contextLineIndices)

InContextLines(text, lines, searchTerm, contextTerm) ==
    InContextOf(text, lines, searchTerm, contextTerm, FindContextLines(lines, contextTerm))

FindAndHighlightInContext(text, searchTerm, contextTerm) ==
    InContextLines(text, Lines(text), searchTerm, contextTerm)

(***************************************************************************)
(* The locate call of _applyHighlight: in context when there is a context  *)
(* term, otherwise the chain subject, predicate, prefixed form, local part *)
(***************************************************************************)
Truthy(v) == v # Null /\ v # ""

\* a step that runs when enabled, whatever the steps before it found
AlwaysTry(prev, enabled, text, term, step) ==
    IF ~enabled THEN prev
    ELSE LocateResult(FindAndHighlight(text, term).ranges, NoPosition,
                      FindAndHighlight(text, term).hung, prev.steps \o <<step>>)

\* if (matches.length === 0 && enabled) matches = this._findAndHighlight(content, doc, term)
ThenTry(prev, enabled, text, term, step) ==
    IF Len(prev.matches) > 0 \/ prev.hung \/ ~enabled THEN prev
    ELSE LocateResult(FindAndHighlight(text, term).ranges, NoPosition,
                      FindAndHighlight(text, term).hung, prev.steps \o <<step>>)

LocateNoContext(text, searchTerm) ==
    ThenTry(
        ThenTry(
            ThenTry(
                ThenTry(LocateResult(FindAndHighlightSubject(text, searchTerm),
                                     NoPosition, FALSE, <<"subject">>),
                        TRUE, text, searchTerm, "predicate"),
                Shrink(searchTerm) # "" /\ Shrink(searchTerm) # searchTerm,
                text, Shrink(searchTerm), "prefixed"),
            Includes(searchTerm, "/") /\ SplitPop(searchTerm, "/") # "",
            text, SplitPop(searchTerm, "/"), "localSlash"),
        Includes(searchTerm, "#") /\ SplitPop(searchTerm, "#") # "",
        text, SplitPop(searchTerm, "#"), "localHash")

Locate(text, searchTerm, contextTerm) ==
    IF Truthy(contextTerm) THEN FindAndHighlightInContext(text, searchTerm, contextTerm)
    ELSE LocateNoContext(text, searchTerm)

(***************************************************************************)
(* Inputs                                                                  *)
(***************************************************************************)
SubjectA == "e/a"

SubjectB == "e/b"

PredicateP == "e/p"

\* an IRI no prefix of the tables abbreviates
PlainTerm == "u#t"

Terms == {PredicateP, SubjectA, PlainTerm}

Models == {"shapesGraph", "dataGraph"}

Contexts == {Null, SubjectA}

QuadOf(subject, predicate) == [subject |-> subject, predicate |-> predicate]

NotLoaded == [isArray |-> FALSE, items |-> <<>>]

Loaded(items) == [isArray |-> TRUE, items |-> items]

\* this.quads: not yet set, empty, or the triples of the predicate in the document
QuadSnapshots ==
    {NotLoaded, Loaded(<<>>), Loaded(<<QuadOf(SubjectA, PredicateP)>>),
     Loaded(<<QuadOf(SubjectA, PredicateP), QuadOf(SubjectB, PredicateP)>>)}

\* the lines documents are made of
LinePool ==
    <<"<e/a> <e/p> \"x\" .", "<e/b> <e/p> \"y\" .", "<e/a> <e/p> 1 ; ex:p 2 .",
      "  ex:p \"ex:p\" ;", "<e/a> <e/q> \"\"\"", "<e/p> z \"\"\" .",
      "\"ex:p\": \"v\",", "<e/a> <e/q> \"a <e/p> b\" .", "  sh:path <e/p> ;",
      "<e/a> <e/q> \"sh:path ex:p\" .", "@prefix ex: <e/> .", "<u#t> <e/q> \"<u#t>\" .",
      "<e/a> <e/q> \"\\\\\" , \" ex:p \" .", "<e/a> <e/p> <e/p> .">>

\* the greatest number of lines of a document
MaxLines == 2

LineChoices(n) == UNION {[1..k -> 1..Len(LinePool)] : k \in 1..n}

DocsUpTo(n) == {JoinLines([i \in 1..Len(f) |-> LinePool[f[i]]]) : f \in LineChoices(n)}

(***************************************************************************)
(* The highlight store model (highlight.js) and mapState of the component  *)
(***************************************************************************)
\* shapesGraphHighlight: null, a term (string payload), or {sourceShape, resultPath}
NoShapesHighlight ==
    [isObject |-> FALSE, value |-> Null, sourceShape |-> Null, resultPath |-> Null]

ShapesTerm(term) ==
    [isObject |-> FALSE, value |-> term, sourceShape |-> Null, resultPath |-> Null]

ShapesObject(sourceShape, resultPath) ==
    [isObject |-> TRUE, value |-> Null, sourceShape |-> sourceShape,
     resultPath |-> resultPath]

\* dataGraphHighlight: null or {focusNode, resultPath}
NoDataHighlight == [isNull |-> TRUE, focusNode |-> Null, resultPath |-> Null]

DataObject(focusNode, resultPath) ==
    [isNull |-> FALSE, focusNode |-> focusNode, resultPath |-> resultPath]

ShapesPayloads ==
    {ShapesTerm(PredicateP), ShapesTerm(SubjectB), ShapesObject(SubjectA, PredicateP)}

DataPayloads ==
    {DataObject(SubjectA, PredicateP), DataObject(SubjectB, PredicateP),
     DataObject(SubjectA, Null)}

\* mapState: highlightTerm
MapHighlightTerm(shapes, data) ==
    IF model = "shapesGraph" /\ (shapes.isObject \/ Truthy(shapes.value))
    THEN IF shapes.isObject /\ Truthy(shapes.sourceShape) /\ Truthy(shapes.resultPath)
         THEN shapes.resultPath
         ELSE shapes.value
    ELSE IF model = "dataGraph" /\ ~data.isNull THEN data.resultPath
    ELSE Null

\* mapState: highlightContext
MapHighlightContext(shapes, data) ==
    IF model = "shapesGraph" /\ (shapes.isObject \/ Truthy(shapes.value))
    THEN IF shapes.isObject /\ Truthy(shapes.sourceShape) /\ Truthy(shapes.resultPath)
         THEN shapes.sourceShape
         ELSE Null
    ELSE IF model = "dataGraph" /\ ~data.isNull THEN data.focusNode
    ELSE Null

\* the greatest number of _applyHighlight calls followed
MaxRequests == 2

\* a reducer has produced a new store state: timestamp is Date.now(), the
\* connected component maps the state to its properties and, when one of
\* them changed, requests an update
StoreChanged(shapes, data) ==
    /\ applySeq < MaxRequests
    /\ shapesGraphHighlight' = shapes
    /\ dataGraphHighlight' = data
    /\ timestamp' = now
    /\ highlightTerm' = MapHighlightTerm(shapes, data)
    /\ highlightContext' = MapHighlightContext(shapes, data)
    /\ highlightTimestamp' = now
    /\ changedTimestamp' = (changedTimestamp \/ now # highlightTimestamp)
    /\ updatePending' = \/ updatePending
                        \/ now # highlightTimestamp
                        \/ MapHighlightTerm(shapes, data) # highlightTerm
                        \/ MapHighlightContext(shapes, data) # highlightContext
    /\ UNCHANGED <<content, padLines, quads, model, now, editorReady, highlightMarkers,
                   docMarks, scrollLockTimeout, timers, cursor, scrollTop, applySeq,
                   result, ctxLines, ctxResult>>

HighlightShapesNode(sourceShape) == StoreChanged(sourceShape, dataGraphHighlight)

HighlightDataNode(payload) == StoreChanged(shapesGraphHighlight, payload)

ClearHighlightsReducer == StoreChanged(NoShapesHighlight, NoDataHighlight)

(***************************************************************************)
(* _clearHighlights and _applyHighlight                                    *)
(***************************************************************************)
\* the marks of a document in which nothing is cleared
KeptDocMarks == docMarks

\* the marks left in the document by _clearHighlights
ClearedDocMarks == IF ~editorReady THEN docMarks ELSE docMarks \ Range(highlightMarkers)

\* the markers a request creates, one per match, in the order of the matches
MarkersOf(req, matches) ==
    [k \in 1..Len(matches) |->
        [req |-> req, k |-> k, from |-> matches[k].from, to |-> matches[k].to]]

FirstScrollDelay == 50

SecondScrollDelay == 100

LockScrollDelay == 200

TimerId(req, k) == 3 * (req - 1) + k

TimerOf(req, k, delay, target) ==
    [id |-> TimerId(req, k), req |-> req, delay |-> delay, due |-> now + delay,
     target |-> target]

\* the three setTimeout calls of a request that found matches
ScrollTimers(req, target) ==
    {TimerOf(req, 1, FirstScrollDelay, target), TimerOf(req, 2, SecondScrollDelay, target),
     TimerOf(req, 3, LockScrollDelay, target)}

\* if (this._scrollLockTimeout) clearTimeout(this._scrollLockTimeout)
AfterClearTimeout == {t \in timers : t.id # scrollLockTimeout}

\* an _applyHighlight that moves the caret and schedules the scrolls to the
\* context line whatever the number of matches
ScrollAlways(req, located) ==
    /\ applySeq' = req
    /\ result' = located
    /\ highlightMarkers' = MarkersOf(req, located.matches)
    /\ docMarks' = ClearedDocMarks \cup Range(MarkersOf(req, located.matches))
    /\ timers' = AfterClearTimeout \cup ScrollTimers(req, located.contextLinePosition)
    /\ scrollLockTimeout' = TimerId(req, 3)
    /\ cursor' = located.contextLinePosition

\* the effects of _applyHighlight, given what its locate call returned
ApplyLocated(req, located) ==
    /\ applySeq' = req
    /\ result' = located
    /\ highlightMarkers' = MarkersOf(req, located.matches)
    /\ docMarks' = ClearedDocMarks \cup Range(MarkersOf(req, located.matches))
    /\ IF Len(located.matches) > 0
       THEN /\ timers' = AfterClearTimeout \cup ScrollTimers(req, located.matches[1].from)
            /\ scrollLockTimeout' = TimerId(req, 3)
            /\ cursor' = located.matches[1].from
       ELSE UNCHANGED <<timers, scrollLockTimeout, cursor>>

ApplyHighlight ==
    ApplyLocated(applySeq + 1,
                 IF ~Truthy(highlightTerm) \/ ~editorReady THEN EmptyResult
                 ELSE Locate(content, highlightTerm, highlightContext))

(***************************************************************************)
(* The component: firstUpdated, updated, the scroll callbacks, the clock   *)
(***************************************************************************)
\* firstUpdated has passed its awaits and set this._editor
FirstUpdatedDone ==
    /\ ~editorReady
    /\ editorReady' = TRUE
    /\ UNCHANGED <<content, padLines, quads, model, shapesGraphHighlight,
                   dataGraphHighlight, timestamp, now, highlightTerm, highlightContext,
                   highlightTimestamp, changedTimestamp, updatePending, highlightMarkers,
                   docMarks, scrollLockTimeout, timers, cursor, scrollTop, applySeq,
                   result, ctxLines, ctxResult>>

\* the update cycle Lit runs for the pending property changes: updated()
LitUpdated ==
    /\ updatePending
    /\ updatePending' = FALSE
    /\ changedTimestamp' = FALSE
    /\ IF changedTimestamp /\ editorReady /\ highlightTimestamp # 0
       THEN ApplyHighlight
       ELSE UNCHANGED <<highlightMarkers, docMarks, scrollLockTimeout, timers, cursor,
                        applySeq, result>>
    /\ UNCHANGED <<content, padLines, quads, model, shapesGraphHighlight,
                   dataGraphHighlight, timestamp, now, editorReady, highlightTerm,
                   highlightContext, highlightTimestamp, scrollTop, ctxLines, ctxResult>>

\* a timer runs when it is due and no pending timer comes before it
MayRun(t) ==
    /\ t.due <= now
    /\ \A u \in timers : u.due > t.due \/ (u.due = t.due /\ u.id >= t.id)

\* a scroll callback: performScroll(), and the last one also clears the stored id
PerformScroll(t) ==
    /\ t \in timers
    /\ MayRun(t)
    /\ timers' = timers \ {t}
    /\ scrollTop' = [req |-> t.req, target |-> t.target, latest |-> applySeq]
    /\ scrollLockTimeout' = IF t.delay = LockScrollDelay THEN 0 ELSE scrollLockTimeout
    /\ UNCHANGED <<content, padLines, quads, model, shapesGraphHighlight,
                   dataGraphHighlight, timestamp, now, editorReady, highlightTerm,
                   highlightContext, highlightTimestamp, changedTimestamp, updatePending,
                   highlightMarkers, docMarks, cursor, applySeq, result, ctxLines,
                   ctxResult>>

\* the first value of Date.now()
StartTime == 1

\* the time that passes in one step of the clock
ClockStep == FirstScrollDelay

\* the number of clock steps followed
MaxTicks == 5

\* time passes; the timers that are due run first
Tick ==
    /\ now < StartTime + MaxTicks * ClockStep
    /\ \A t \in timers : t.due > now
    /\ now' = now + ClockStep
    /\ UNCHANGED <<content, padLines, quads, model, shapesGraphHighlight,
                   dataGraphHighlight, timestamp, editorReady, highlightTerm,
                   highlightContext, highlightTimestamp, changedTimestamp, updatePending,
                   highlightMarkers, docMarks, scrollLockTimeout, timers, cursor,
                   scrollTop, applySeq, result, ctxLines, ctxResult>>

(***************************************************************************)
(* Specification of the component in a session                             *)
(***************************************************************************)
\* two subjects with the predicate; a shape with a path and a literal naming it
SessionDocs ==
    {JoinLines(<<LinePool[1], LinePool[2]>>), JoinLines(<<LinePool[10], LinePool[9]>>)}

\* the component after construction, before any request
Constructed ==
    /\ shapesGraphHighlight = NoShapesHighlight
    /\ dataGraphHighlight = NoDataHighlight
    /\ timestamp = 0
    /\ now = StartTime
    /\ highlightTerm = Null
    /\ highlightContext = Null
    /\ highlightTimestamp = 0
    /\ changedTimestamp = FALSE
    /\ updatePending = FALSE
    /\ highlightMarkers = <<>>
    /\ docMarks = {}
    /\ scrollLockTimeout = 0
    /\ timers = {}
    /\ cursor = -1
    /\ scrollTop = [req |-> 0, target |-> 0, latest |-> 0]
    /\ applySeq = 0
    /\ result = EmptyResult
    /\ ctxLines = <<>>
    /\ ctxResult = [called |-> FALSE, term |-> Null, indices |-> <<>>]

Init ==
    /\ content \in SessionDocs
    /\ padLines = 0
    /\ quads \in {NotLoaded, Loaded(<<QuadOf(SubjectA, PredicateP)>>)}
    /\ model \in Models
    /\ editorReady = FALSE
    /\ Constructed

Next ==
    \/ \E payload \in ShapesPayloads : HighlightShapesNode(payload)
    \/ \E payload \in DataPayloads : HighlightDataNode(payload)
    \/ ClearHighlightsReducer
    \/ FirstUpdatedDone
    \/ LitUpdated
    \/ \E t \in timers : PerformScroll(t)
    \/ Tick

Spec == Init /\ [][Next]_vars

(***************************************************************************)
(* Specification of one locate call on any document of the pool            *)
(***************************************************************************)
InitLocate ==
    /\ content \in DocsUpTo(MaxLines)
    /\ padLines \in {0, MaxDocumentLines}
    /\ quads \in QuadSnapshots
    /\ model \in Models
    /\ editorReady = TRUE
    /\ Constructed

\* the properties are set and _applyHighlight runs
LocateCall(term, contextTerm) ==
    /\ applySeq = 0
    /\ highlightTerm' = term
    /\ highlightContext' = contextTerm
    /\ ApplyLocated(1, Locate(content, term, contextTerm))
    /\ UNCHANGED <<content, padLines, quads, model, shapesGraphHighlight,
                   dataGraphHighlight, timestamp, now, editorReady, highlightTimestamp,
                   changedTimestamp, updatePending, scrollTop, ctxLines, ctxResult>>

NextLocate == \E term \in Terms, contextTerm \in Contexts : LocateCall(term, contextTerm)

SpecLocate == InitLocate /\ [][NextLocate]_vars

(***************************************************************************)
(* Specification of _applyHighlight called again with unchanged properties *)
(* on an unchanged document (updated() runs it whenever only the timestamp *)
(* changed)                                                                *)
(***************************************************************************)
\* on the one-line documents of the pool and the documents of the session
InitRepeat ==
    /\ content \in DocsUpTo(1) \cup SessionDocs
    /\ padLines = 0
    /\ quads \in QuadSnapshots
    /\ model \in Models
    /\ editorReady = TRUE
    /\ Constructed

\* _applyHighlight runs again: same term, same context, same text, same quads
RepeatCall ==
    /\ applySeq >= 1
    /\ applySeq < MaxRequests
    /\ ApplyHighlight
    /\ UNCHANGED <<content, padLines, quads, model, shapesGraphHighlight,
                   dataGraphHighlight, timestamp, now, editorReady, highlightTerm,
                   highlightContext, highlightTimestamp, changedTimestamp, updatePending,
                   scrollTop, ctxLines, ctxResult>>

NextRepeat ==
    \/ \E term \in Terms, contextTerm \in Contexts : LocateCall(term, contextTerm)
    \/ RepeatCall

SpecRepeat == InitRepeat /\ [][NextRepeat]_vars

(***************************************************************************)
(* Specification of one locate call for a term of a well-known vocabulary  *)
(* that no prefix of the tables abbreviates: the text-fallback matchers    *)
(* guess the conventional prefixes of the vocabulary                       *)
(***************************************************************************)
SchemaTerm == "schema.org/n"

\* the predicate as a bracketed IRI, under a guessed prefix and as a bare local
\* name, under another guessed prefix, and as a JSON-LD key under a guessed prefix
SchemaLines ==
    <<"<e/a> <schema.org/n> 1 .", "<e/a> schema:n 2 ; n 3 .", "<e/a> sdo:n 4 .",
      "\"schema:n\": 5,">>

InitSchema ==
    /\ content \in {JoinLines(<<SchemaLines[i]>>) : i \in 1..Len(SchemaLines)}
                   \cup {JoinLines(<<SchemaLines[i], SchemaLines[j]>>) :
                            i \in 1..Len(SchemaLines), j \in 1..Len(SchemaLines)}
    /\ padLines = 0
    /\ quads \in {NotLoaded, Loaded(<<QuadOf(SubjectA, SchemaTerm)>>)}
    /\ model \in Models
    /\ editorReady = TRUE
    /\ Constructed

NextSchema == \E contextTerm \in Contexts : LocateCall(SchemaTerm, contextTerm)

SpecSchema == InitSchema /\ [][NextSchema]_vars

(***************************************************************************)
(* Specification of one locate call in the context of a shape whose block  *)
(* holds path statements, for a path and for the term sh:path itself       *)
(***************************************************************************)
\* the shape e/a, then one or two of: the path sh:path, the path e/p bracketed
\* and prefixed, and the path ex:p after another statement of the line
InitShapePath ==
    /\ content \in
          LET shapeLine == "<e/a> a sh:PropertyShape ;"
              pathLines == <<"  sh:path sh:path ;", "  sh:path <e/p> ;", "  sh:path ex:p ;",
                             "  sh:minCount 1 ; sh:path ex:p ;">>
          IN  {JoinLines(<<shapeLine, pathLines[i]>>) : i \in 1..Len(pathLines)}
              \cup {JoinLines(<<shapeLine, pathLines[i], pathLines[j]>>) :
                       i \in 1..Len(pathLines), j \in 1..Len(pathLines)}
    /\ padLines = 0
    /\ quads \in {NotLoaded, Loaded(<<>>)}
    /\ model \in Models
    /\ editorReady = TRUE
    /\ Constructed

NextShapePath == \E term \in {PredicateP, "w3/shacl#path"} : LocateCall(term, SubjectA)

SpecShapePath == InitShapePath /\ [][NextShapePath]_vars

(***************************************************************************)
(* Specification of one _findContextLines call on lists with many          *)
(* matching lines                                                          *)
(***************************************************************************)
\* the greatest number of repetitions of a line
MaxRepeat == 12

\* lines the first pass matches, lines only the relaxed pass matches, others
ContextLinePool == <<"<e/a> <e/p> 1 .", "ns:a <e/p> 2 .", "  ex:p 3 ;", "<e/b> <e/p> 4 .">>

Repeat(line, n) == [i \in 1..n |-> line]

RepeatedLines ==
    {Repeat(ContextLinePool[i], n) \o Repeat(ContextLinePool[j], m) :
        i \in 1..Len(ContextLinePool), j \in 1..Len(ContextLinePool),
        n \in 1..MaxRepeat, m \in 0..1}

InitContextLines ==
    /\ ctxLines \in RepeatedLines
    /\ content = JoinLines(ctxLines)
    /\ padLines = 0
    /\ quads = NotLoaded
    /\ model = "dataGraph"
    /\ editorReady = TRUE
    /\ shapesGraphHighlight = NoShapesHighlight
    /\ dataGraphHighlight = NoDataHighlight
    /\ timestamp = 0
    /\ now = StartTime
    /\ highlightTerm = Null
    /\ highlightContext = Null
    /\ highlightTimestamp = 0
    /\ changedTimestamp = FALSE
    /\ updatePending = FALSE
    /\ highlightMarkers = <<>>
    /\ docMarks = {}
    /\ scrollLockTimeout = 0
    /\ timers = {}
    /\ cursor = -1
    /\ scrollTop = [req |-> 0, target |-> 0, latest |-> 0]
    /\ applySeq = 0
    /\ result = EmptyResult
    /\ ctxResult = [called |-> FALSE, term |-> Null, indices |-> <<>>]

FindContextLinesCall(contextTerm) ==
    /\ ~ctxResult.called
    /\ ctxResult' = [called |-> TRUE, term |-> contextTerm,
                     indices |-> FindContextLines(ctxLines, contextTerm)]
    /\ UNCHANGED <<content, padLines, quads, model, shapesGraphHighlight,
                   dataGraphHighlight, timestamp, now, editorReady, highlightTerm,
                   highlightContext, highlightTimestamp, changedTimestamp, updatePending,
                   highlightMarkers, docMarks, scrollLockTimeout, timers, cursor,
                   scrollTop, applySeq, result, ctxLines>>

NextContextLines == \E contextTerm \in {SubjectA, SubjectB} : FindContextLinesCall(contextTerm)

SpecContextLines == InitContextLines /\ [][NextContextLines]_vars

(***************************************************************************)
(* Properties.  The notions of the documentation that the properties use:  *)
(* the string literals of a text, the statement block of a subject.        *)
(***************************************************************************)
\* a locate call has been made (in SpecLocate the call is the only step)
Called == applySeq = 1

\* the offset after the closing quote of the single-line literal whose content starts
\* at i; a backslash escapes the character after it; an unclosed literal ends its line
RECURSIVE ShortLiteralEnd(_, _)
ShortLiteralEnd(text, i) ==
    IF i >= Len(text) \/ CharAt(text, i) = "\n" THEN i
    ELSE IF CharAt(text, i) = "\\" THEN ShortLiteralEnd(text, i + 2)
    ELSE IF CharAt(text, i) = "\"" THEN i + 1
    ELSE ShortLiteralEnd(text, i + 1)

\* the offset after the closing delimiter of the triple-quoted literal whose content
\* starts at i
LongLiteralEnd(text, i) ==
    IF IndexOf(text, "\"\"\"", i) = -1 THEN Len(text) ELSE IndexOf(text, "\"\"\"", i) + 3

\* the string literals of the text from offset i on, delimiters included, as [start, end)
RECURSIVE LiteralSpans(_, _)
LiteralSpans(text, i) ==
    IF i >= Len(text) THEN {}
    ELSE IF Substring(text, i, i + 3) = "\"\"\""
         THEN {[start |-> i, end |-> LongLiteralEnd(text, i + 3)]}
              \cup LiteralSpans(text, LongLiteralEnd(text, i + 3))
    ELSE IF CharAt(text, i) = "\""
         THEN {[start |-> i, end |-> ShortLiteralEnd(text, i + 1)]}
              \cup LiteralSpans(text, ShortLiteralEnd(text, i + 1))
    ELSE LiteralSpans(text, i + 1)

\* the literals that are not JSON-LD keys: no colon follows them
ValueLiterals(text) ==
    {span \in LiteralSpans(text, 0) : ~ColonAt(text, SkipSpaces(text, span.end))}

\* the range lies between the delimiters of a literal that is not a JSON-LD key
InsideLiteral(text, from, to) ==
    \E span \in ValueLiterals(text) : span.start < from /\ to < span.end

\* the range lies within a literal that is not a JSON-LD key, delimiters included
WithinLiteral(text, from, to) ==
    \E span \in ValueLiterals(text) : span.start <= from /\ to <= span.end

\* the offsets at which spelling v occurs in the text
Occurrences(text, v) ==
    {i \in 0..(Len(text) - Len(v)) : SubSeq(text, i + 1, i + Len(v)) = v}

\* the term is spelled somewhere in the text, and only within literals
OnlyInLiterals(text, term) ==
    /\ \E v \in Range(FallbackSearchVariants(term)) : Occurrences(text, v) # {}
    /\ \A v \in Range(FallbackSearchVariants(term)) :
          \A i \in Occurrences(text, v) : WithinLiteral(text, i, i + Len(v))

\* the lines of the statement block of the subject on line c: line c and the lines
\* after it, up to the next line that starts a statement at column 0
RECURSIVE BlockEnd(_, _)
BlockEnd(lines, i) ==
    IF i >= Len(lines) \/ StartsNewSubject(LineAt(lines, i)) THEN i
    ELSE BlockEnd(lines, i + 1)

BlockOf(lines, c) == c..(BlockEnd(lines, c + 1) - 1)

\* the lines of the blocks of the context subject
ContextBlockLines(lines, contextTerm) ==
    UNION {BlockOf(lines, c) : c \in Range(FindContextLines(lines, contextTerm))}

\* the number of quads of the snapshot with the predicate under the subject
QuadCount(subject, predicate) ==
    Len(SelectSeq(quads.items, LAMBDA q : q.subject = subject /\ q.predicate = predicate))

\* C1: every range a locate call returns is a structural occurrence; none lies
\* inside a string literal that is not a JSON-LD key.
C1_NoRangeInsideLiteral ==
    Called => \A k \in 1..Len(result.matches) :
                  ~InsideLiteral(content, result.matches[k].from, result.matches[k].to)

\* C2: with a context term whose block is found, every range returned in context
\* lies on a line of a block of the context subject, never on a line of the
\* block of another subject.
C2_RangesInContextBlock ==
    (Called /\ Truthy(highlightContext)
        /\ Len(FindContextLines(Lines(content), highlightContext)) > 0)
    => \A k \in 1..Len(result.matches) :
          LineOfOffset(Lines(content), result.matches[k].from)
              \in ContextBlockLines(Lines(content), highlightContext)

\* C3: when the snapshot holds the predicate exactly k times under the context
\* subject, a data-model locate in that context returns at most k ranges for
\* the predicate.
C3_AtMostQuadCount ==
    (Called /\ model = "dataGraph" /\ Truthy(highlightContext)
        /\ QuadCount(highlightContext, highlightTerm) >= 1
        /\ result.steps = <<"quads">>)
    => Len(result.matches) <= QuadCount(highlightContext, highlightTerm)

\* C4: the ranges any locate call returns are in strictly ascending order of
\* text offset.
C4_StrictlyAscending ==
    Called => \A i, j \in 1..Len(result.matches) :
                  i < j => result.matches[i].from < result.matches[j].from

\* C5: when every occurrence of the spellings of the term lies in a string
\* literal, the text-fallback matcher returns no range and no mark is made.
C5_FallbackSkipsLiterals ==
    (Called /\ ~Truthy(highlightContext) /\ result.steps = <<"subject", "predicate">>
        /\ Len(GetPredicateStringsFromQuads(highlightTerm, Null)) = 0
        /\ OnlyInLiterals(content, highlightTerm))
    => (Len(result.matches) = 0 /\ docMarks = {})

\* C6: on a document of more than 10,000 lines every locate call returns no
\* range and makes no mark.
C6_LargeDocumentEmpty ==
    (Called /\ LineCount(Lines(content)) > MaxDocumentLines)
    => (Len(result.matches) = 0 /\ docMarks = {} /\ ~result.hung)

\* the terms the chain without context passes to _findAndHighlight
ChainTerms(term) ==
    {term}
    \cup (IF Shrink(term) # "" /\ Shrink(term) # term THEN {Shrink(term)} ELSE {})
    \cup (IF Includes(term, "/") /\ SplitPop(term, "/") # "" THEN {SplitPop(term, "/")} ELSE {})
    \cup (IF Includes(term, "#") /\ SplitPop(term, "#") # "" THEN {SplitPop(term, "#")} ELSE {})

\* the spellings the loops of a locate call without context look for
SpellingsWithoutContext(text, term) ==
    Range(SubjectVariants(term, Shrink(term), DetectPrefix(text, HashNamespaceOf(term)),
                          LocalPart(term)))
    \cup UNION {Range(GetPredicateStringsFromQuads(t, Null)) : t \in ChainTerms(term)}
    \cup UNION {Range(FallbackSearchVariants(t)) : t \in ChainTerms(term)}

\* the spellings the loops of a locate call in a context look for
SpellingsInContext(text, term, contextTerm) ==
    Range(ContextTermVariants(contextTerm, Shrink(contextTerm),
                              DetectPrefix(text, NamespaceOf(contextTerm)),
                              LocalPart(contextTerm)))
    \cup Range(PrefixedVariants(contextTerm, Shrink(contextTerm), LocalPart(contextTerm)))
    \cup Range(ShapePathVariants(term, Shrink(term), LocalPart(term)))
    \cup Range(GetPredicateStringsFromQuads(term, contextTerm))
    \cup Range(FallbackSearchVariants(term))
    \cup Range(ContextAnchorVariants(contextTerm))

Spellings(text, term, contextTerm) ==
    IF Truthy(contextTerm) THEN SpellingsInContext(text, term, contextTerm)
    ELSE SpellingsWithoutContext(text, term)

\* C10: every locate call ends with a result, whatever the term, context, text
\* and quad snapshot: no scanning loop fails to advance, and no spelling that is
\* looked for is empty.
C10_LocateTerminates ==
    Called => /\ ~result.hung
              /\ "" \notin Spellings(content, highlightTerm, highlightContext)

\* a call with quads that were never set, on a term that has no prefixed form,
\* running the whole chain without finding anything
C10_Witness ==
    /\ Called
    /\ ~quads.isArray
    /\ highlightTerm = PlainTerm
    /\ result.steps = <<"subject", "predicate", "localHash">>
    /\ Len(result.matches) = 0
    /\ ~result.hung

\* C7: _findContextLines returns at most 11 line indices, from the primary
\* pass or from the relaxed pass.
C7_AtMostElevenContextLines ==
    ctxResult.called => Len(ctxResult.indices) <= ContextLineLimit + 1

\* the relaxed pass stops at 11 indices on a list with more matching lines
C7_Witness ==
    /\ ctxResult.called
    /\ Len(ctxResult.indices) = ContextLineLimit + 1
    /\ Len(ctxLines) > ContextLineLimit + 1
    /\ \A i \in 1..Len(ctxLines) : ctxLines[i] = ContextLinePool[2]

\* C8: the marks in the editor are exactly the marks the latest _applyHighlight
\* call made; the marks of earlier calls were cleared, also when the latest
\* call found nothing or had no term.
C8_MarksOfLatestRequest ==
    /\ docMarks = Range(highlightMarkers)
    /\ highlightMarkers = MarkersOf(applySeq, result.matches)

\* a second request without a term has been applied after a first one that made marks
C8_Witness ==
    /\ applySeq = 2
    /\ ~Truthy(highlightTerm)
    /\ docMarks = {}
    /\ \E t \in timers : t.req = 1

\* C9: once a later request has been applied, no scroll callback of an earlier
\* request runs: the callback that last scrolled belonged to the latest request
\* applied at the time it ran.
C9_NoStaleScroll == scrollTop.req = scrollTop.latest

\* the context lines of the call, and the lines searched for the predicate
ContextLinesOfCall == FindContextLines(Lines(content), highlightContext)

\* neither the quad-backed scan nor the text scan of the lines of the context
\* finds a structural occurrence of the predicate
NotFoundInBlock(text, lines, linesToSearch) ==
    /\ Len(ScanContextLines(text, lines, linesToSearch,
                            GetPredicateStringsFromQuads(highlightTerm, highlightContext),
                            -1, 1).ranges) = 0
    /\ Len(ScanContextLines(text, lines, linesToSearch,
                            FallbackSearchVariants(highlightTerm), SafetyLimit, 1).ranges) = 0

\* the data-model call in a context whose lines are found and hold no
\* structural occurrence of the predicate
PredicateMissingInContext ==
    /\ Called
    /\ model = "dataGraph"
    /\ Truthy(highlightContext)
    /\ Len(ContextLinesOfCall) > 0
    /\ NotFoundInBlock(content, Lines(content),
                       BuildLinesToSearch(Lines(content), ContextLinesOfCall))

\* the result is one range per context line, each covering a spelling of the
\* context term on that line
AnchorResult ==
    /\ Len(result.matches) > 0
    /\ Len(result.matches) = Len(ContextLinesOfCall)
    /\ \A k \in 1..Len(result.matches) :
          /\ LineOfOffset(Lines(content), result.matches[k].from) = ContextLinesOfCall[k]
          /\ LineOfOffset(Lines(content), result.matches[k].to - 1) = ContextLinesOfCall[k]
          /\ Substring(content, result.matches[k].from, result.matches[k].to)
                 \in Range(ContextAnchorVariants(highlightContext))

\* C11 as stated: whenever the context block is found in the data model and no
\* structural occurrence of the predicate is found in it, the call returns the
\* non-empty range of the context subject on its context lines.
C11_AnchorWheneverPredicateMissing == PredicateMissingInContext => AnchorResult

\* C11: on a document of at most 10,000 lines, when the context block is found
\* in the data model and no structural occurrence of the predicate is found in
\* it, the call returns the non-empty range of the context subject on its
\* context lines instead of an empty result.
C11_AnchorWhenPredicateMissing ==
    (PredicateMissingInContext /\ ~TooManyLines(Lines(content))) => AnchorResult

\* the quad-backed scan and the text scan both ran and found nothing, and the
\* subject of the context line is returned
C11_Witness ==
    /\ PredicateMissingInContext
    /\ result.steps = <<"quads", "text", "anchor">>
    /\ Len(result.matches) = 1
    /\ Substring(content, result.matches[1].from, result.matches[1].to) = SubjectA

\* the ranges of a set of marks
RangesOfMarks(marks) == {[from |-> m.from, to |-> m.to] : m \in marks}

\* C12: a locate call repeated with the same term, context, text, model and
\* quads returns the same list of ranges, and the marks in the editor after the
\* second call are the marks after the first: as many, on the same ranges.
C12_RepeatedCallSameResult ==
    [][(applySeq >= 1 /\ applySeq' = applySeq + 1)
        => /\ result'.matches = result.matches
           /\ RangesOfMarks(docMarks') = RangesOfMarks(docMarks)
           /\ Cardinality(docMarks') = Cardinality(docMarks)
           /\ Len(highlightMarkers') = Len(highlightMarkers)]_vars

\* a second call has run after a first one that marked two ranges
C12_Witness ==
    /\ applySeq = 2
    /\ Len(result.matches) = 2
    /\ Cardinality(docMarks) = 2
    /\ \A m \in docMarks : m.req = 2

\* the text is JSON text, which has no triple-quote delimiter; the prefixed name
\* of the term occurs once in it, between double quotes followed by a colon,
\* and the full IRI does not occur
SingleQuotedKey(text, term, prefixed) ==
    /\ prefixed # "" /\ prefixed # term
    /\ Occurrences(text, "\"\"\"") = {}
    /\ Occurrences(text, term) = {}
    /\ Cardinality(Occurrences(text, prefixed)) = 1
    /\ \A i \in Occurrences(text, prefixed) :
          /\ i >= 1
          /\ CharAt(text, i - 1) = "\""
          /\ CharAt(text, i + Len(prefixed)) = "\""
          /\ ColonAt(text, SkipSpaces(text, i + Len(prefixed) + 1))

\* the range of the quoted key: the prefixed name with the quotes around it
QuotedKeyRange(text, prefixed) ==
    MarkRange(FirstOf(Occurrences(text, prefixed)) - 1, Len(prefixed) + 2)

\* C13: in a JSON-LD text where the predicate occurs once, as a quoted prefixed
\* key followed by a colon, and with one quad of the predicate in the snapshot, a
\* locate call without context returns exactly one range: the key with the
\* double quotes around it.
C13_QuotedKeyWithQuotes ==
    (Called /\ ~Truthy(highlightContext)
        /\ SingleQuotedKey(content, highlightTerm, Shrink(highlightTerm))
        /\ Len(MatchingQuads(highlightTerm, Null)) = 1)
    => result.matches = <<QuotedKeyRange(content, Shrink(highlightTerm))>>

\* the key "ex:p" of a two-line document is returned with its quotes
C13_Witness ==
    /\ Called
    /\ ~Truthy(highlightContext)
    /\ highlightTerm = PredicateP
    /\ SingleQuotedKey(content, highlightTerm, Shrink(highlightTerm))
    /\ Len(MatchingQuads(highlightTerm, Null)) = 1
    /\ Len(Lines(content)) = 2
    /\ result.steps = <<"subject", "predicate">>
    /\ Len(result.matches) = 1
    /\ Substring(content, result.matches[1].from, result.matches[1].to) = "\"ex:p\""

\* the match begins at a double quote, or lies directly between two double
\* quotes, and a colon follows after optional white space
KeyShaped(text, i, length) ==
    \/ /\ CharAt(text, i) = "\""
       /\ ColonAt(text, SkipSpaces(text, i + length))
    \/ /\ i > 0
       /\ CharAt(text, i - 1) = "\""
       /\ i + length < Len(text)
       /\ CharAt(text, i + length) = "\""
       /\ ColonAt(text, SkipSpaces(text, i + length + 1))

\* a call without context whose subject step found nothing and whose
\* predicate step ran the text-fallback matcher on the whole text, which marks
\* every occurrence of a spelling that the classifier accepts
ClassifiedByFallback ==
    /\ Called
    /\ ~Truthy(highlightContext)
    /\ Len(GetPredicateStringsFromQuads(highlightTerm, Null)) = 0
    /\ Len(result.steps) >= 2
    /\ result.steps[2] = "predicate"

Marked(i, length) == MarkRange(i, length) \in Range(result.matches)

\* C14 as stated: a key-shaped match is classified structural whatever the
\* number of triple-quote delimiters before it.
C14_JsonKeyAlwaysStructural ==
    ClassifiedByFallback
    => \A v \in Range(FallbackSearchVariants(highlightTerm)) :
          \A i \in Occurrences(content, v) :
              KeyShaped(content, i, Len(v)) => Marked(i, Len(v))

\* C14: a key-shaped match is classified structural exactly when the number of
\* triple-quote delimiters before it is even: the triple-quoted-literal
\* rejection comes first, and the JSON-key check takes precedence only over the
\* count of the quotes on the line.
C14_JsonKeyUnlessInTripleQuoted ==
    ClassifiedByFallback
    => \A v \in Range(FallbackSearchVariants(highlightTerm)) :
          \A i \in Occurrences(content, v) :
              KeyShaped(content, i, Len(v))
              => (Marked(i, Len(v)) <=> CountTripleQuotes(content, 0, i) % 2 = 0)

\* the key ex:p between its quotes, with one quote before it on its line and
\* outside any triple-quoted literal, is classified structural
C14_Witness ==
    /\ ClassifiedByFallback
    /\ \E i \in Occurrences(content, "ex:p") :
          /\ KeyShaped(content, i, 4)
          /\ CharAt(content, i) # "\""
          /\ CountTripleQuotes(content, 0, i) = 0
          /\ Marked(i, 4)

\* the steps of the path without context, in their order
ChainOrder == <<"subject", "predicate", "prefixed", "localSlash", "localHash">>

PlaceInChain(step) == CHOOSE k \in 1..Len(ChainOrder) : ChainOrder[k] = step

\* the ranges a step of the chain finds for the term in the text, on its own
StepRanges(step, text, term) ==
    CASE step = "subject" -> FindAndHighlightSubject(text, term)
      [] step = "predicate" -> FindAndHighlight(text, term).ranges
      [] step = "prefixed" -> FindAndHighlight(text, Shrink(term)).ranges
      [] step = "localSlash" -> FindAndHighlight(text, SplitPop(term, "/")).ranges
      [] step = "localHash" -> FindAndHighlight(text, SplitPop(term, "#")).ranges

\* C15: without context the steps run in the order subject, predicate on the
\* full term, predicate on the prefixed term, local name after the last '/',
\* local name after the last '#'; a step runs only when every step before it
\* found no range, and the ranges and marks at the end are those of the last
\* step that ran.
C15_ChainStopsAtFirstMatch ==
    (Called /\ ~Truthy(highlightContext))
    => /\ Len(result.steps) >= 1
       /\ result.steps[1] = "subject"
       /\ \A k \in 1..Len(result.steps) : result.steps[k] \in Range(ChainOrder)
       /\ \A j, k \in 1..Len(result.steps) :
             j < k => PlaceInChain(result.steps[j]) < PlaceInChain(result.steps[k])
       /\ \A k \in 1..(Len(result.steps) - 1) :
             Len(StepRanges(result.steps[k], content, highlightTerm)) = 0
       /\ result.matches
              = StepRanges(result.steps[Len(result.steps)], content, highlightTerm)
       /\ RangesOfMarks(docMarks) = Range(result.matches)

\* the subject step found nothing and the predicate step made the marks
C15_Witness ==
    /\ Called
    /\ ~Truthy(highlightContext)
    /\ result.steps = <<"subject", "predicate">>
    /\ Len(FindAndHighlightSubject(content, highlightTerm)) = 0
    /\ Len(result.matches) = 2
    /\ Cardinality(docMarks) = 2

\* the ranges a scan of the lines of the context finds for the spellings
ContextScanOfCall(variants, limit) ==
    ScanContextLines(content, Lines(content),
                     BuildLinesToSearch(Lines(content), ContextLinesOfCall),
                     variants, limit, 1).ranges

QuadScanOfCall ==
    ContextScanOfCall(GetPredicateStringsFromQuads(highlightTerm, highlightContext), -1)

TextScanOfCall == ContextScanOfCall(FallbackSearchVariants(highlightTerm), SafetyLimit)

\* the strategies of the data model in a context, in their order, and the two
\* ways the text search is given up
DataStrategies == <<"quads", "text", "anchor", "guard", "noContext">>

PlaceInData(step) == CHOOSE k \in 1..Len(DataStrategies) : DataStrategies[k] = step

Ran(step) == step \in Range(result.steps)

\* the strategies of a data-model call in a context ran in order, each only
\* when the one before it found nothing
DataStrategiesInOrder(quadScan, textScan) ==
    /\ \A k \in 1..Len(result.steps) : result.steps[k] \in Range(DataStrategies)
    /\ \A j, k \in 1..Len(result.steps) :
          j < k => PlaceInData(result.steps[j]) < PlaceInData(result.steps[k])
    /\ (Ran("quads") /\ Len(quadScan) > 0)
           => (result.steps = <<"quads">> /\ result.matches = quadScan)
    /\ Ran("text") => Len(quadScan) = 0
    /\ (Ran("text") /\ ~Ran("anchor")) => (Len(textScan) > 0 /\ result.matches = textScan)
    /\ Ran("anchor") => (Ran("text") /\ Len(textScan) = 0)

\* C16: which strategies run depends on the context and the model only: in a
\* context with the shapes model the shape-path strategy alone; in a context
\* with the data model the quad-backed scan, then the text scan, then the
\* context anchor, each only when the one before it found no range; without
\* context none of the strategies of a context.
C16_StrategyByContextAndModel ==
    Called
    => /\ (Truthy(highlightContext) /\ model = "shapesGraph")
              => result = FindAndHighlightShapePath(Lines(content), highlightTerm,
                                                    ContextLinesOfCall)
       /\ (Truthy(highlightContext) /\ model = "dataGraph")
              => DataStrategiesInOrder(QuadScanOfCall, TextScanOfCall)
       /\ ~Truthy(highlightContext)
              => /\ \A k \in 1..Len(result.steps) : result.steps[k] \in Range(ChainOrder)
                 /\ result.contextLinePosition = NoPosition

\* in the shapes model the shape-path strategy alone ran, although the quads
\* hold the predicate under the context subject and the text spells it there
C16_Witness ==
    /\ Called
    /\ Truthy(highlightContext)
    /\ model = "shapesGraph"
    /\ Len(GetPredicateStringsFromQuads(highlightTerm, highlightContext)) > 0
    /\ Len(QuadScanOfCall) > 0
    /\ result.steps = <<"shapePath">>
    /\ Len(result.matches) = 0

\* the quads give no spelling for the term of the call (under the context
\* subject, when there is a context), in a call that consults the quads
NoSpellingFromQuads ==
    /\ Called
    /\ ~(Truthy(highlightContext) /\ model = "shapesGraph")
    /\ Len(GetPredicateStringsFromQuads(highlightTerm, highlightContext)) = 0

\* the ranges the text-fallback matcher finds where the call searches: on the
\* lines of the context, or in the whole text without context
FallbackRangesOfCall ==
    IF Truthy(highlightContext) THEN TextScanOfCall
    ELSE FindAndHighlightFallback(content, highlightTerm).ranges

\* the result is not empty, and it is what the text-fallback matcher finds
\* unless the subject step of the path without context found the term
FallbackResult(fallbackRanges) ==
    /\ Len(result.matches) > 0
    /\ (Truthy(highlightContext) \/ Ran("predicate")) => result.matches = fallbackRanges

\* C17 as stated: whenever the quads give no spelling for the term and the
\* text searched holds a structural spelling of it, the call returns what the
\* text-fallback matcher finds, never an empty result.
C17_FallbackWheneverQuadsEmpty ==
    (NoSpellingFromQuads /\ Len(FallbackRangesOfCall) > 0)
    => FallbackResult(FallbackRangesOfCall)

\* C17: on a document of at most 10,000 lines, whenever the quads give no
\* spelling for the term and the text searched holds a structural spelling of
\* it, the call returns what the text-fallback matcher finds, never an empty
\* result.
C17_FallbackWhenQuadsEmpty ==
    (NoSpellingFromQuads /\ Len(FallbackRangesOfCall) > 0
        /\ ~TooManyLines(Lines(content)))
    => FallbackResult(FallbackRangesOfCall)

\* quads that were never set, a context in the data model: the text scan of
\* the lines of the context made the marks
C17_Witness ==
    /\ NoSpellingFromQuads
    /\ ~quads.isArray
    /\ Truthy(highlightContext)
    /\ result.steps = <<"text">>
    /\ Len(result.matches) = 2

\* the structurally valid occurrences of the spellings in the text, as ranges
StructuralCandidates(text, spellings) ==
    UNION {{MarkRange(i, Len(v)) : i \in {j \in Occurrences(text, v) :
                                             IsPredicatePosition(text, j, Len(v))}} :
           v \in spellings}

\* the predicate step of a call without context ran the quad-backed matcher
\* with n quads of the predicate and made the marks
QuadBackedWithoutContext(n) ==
    /\ Called
    /\ ~Truthy(highlightContext)
    /\ result.steps = <<"subject", "predicate">>
    /\ n > 0

\* the ranges are the n candidates of lowest offset, or all of them when there
\* are fewer, in ascending order
LowestCandidates(candidates, n) ==
    /\ Len(result.matches) = Min(n, Cardinality(candidates))
    /\ Range(result.matches) \subseteq candidates
    /\ \A j, k \in 1..Len(result.matches) :
          j < k => result.matches[j].from < result.matches[k].from
    /\ \A c \in candidates \ Range(result.matches) :
          \A k \in 1..Len(result.matches) : result.matches[k].from < c.from
    /\ RangesOfMarks(docMarks) = Range(result.matches)

\* C18: without context, with N > 0 quads of the predicate in the snapshot,
\* the quad-backed matcher returns the N structurally valid candidates of
\* lowest offset (all of them when there are fewer), in ascending order, and
\* marks no candidate beyond the N-th.
C18_LowestCandidatesUpToQuadCount ==
    QuadBackedWithoutContext(Len(MatchingQuads(highlightTerm, Null)))
    => LowestCandidates(
           StructuralCandidates(content,
                                Range(GetPredicateStringsFromQuads(highlightTerm, Null))),
           Len(MatchingQuads(highlightTerm, Null)))

\* two quads of the predicate, three structural candidates in the text: the
\* first two are returned
C18_Witness ==
    /\ QuadBackedWithoutContext(Len(MatchingQuads(highlightTerm, Null)))
    /\ Len(MatchingQuads(highlightTerm, Null)) = 2
    /\ Cardinality(StructuralCandidates(
           content, Range(GetPredicateStringsFromQuads(highlightTerm, Null)))) = 3
    /\ Len(result.matches) = 2

\* the line has content at column 0 that is neither white space nor '@'
ContentAtColumnZero(line) ==
    /\ Len(line) > 0
    /\ ~IsSpace(CharAt(line, 0))
    /\ CharAt(line, 0) # "@"

\* the indices context line c contributes lie in [c, min(c + 19, last line)],
\* are at most 20, and none lies beyond the first line after c with content
\* at column 0
WithinWindow(lines, c, contributed) ==
    /\ \A i \in contributed :
          /\ c <= i
          /\ i <= Min(c + SearchWindow - 1, LineCount(lines) - 1)
          /\ \A j \in (c + 1)..(i - 1) : ~ContentAtColumnZero(LineAt(lines, j))
    /\ Cardinality(contributed) <= SearchWindow

\* a call in a context whose lines are found
ContextFound ==
    /\ Called
    /\ Truthy(highlightContext)
    /\ Len(ContextLinesOfCall) > 0

\* C19: for every context line c, _buildLinesToSearch contributes only indices
\* in [c, min(c + 19, last line)], at most 20 of them, and no index beyond the
\* first later line that starts at column 0 with content that is neither white
\* space nor '@'; the scans of the context mark ranges on these lines only.
C19_SearchWindowOfContextLine ==
    ContextFound
    => /\ \A k \in 1..Len(ContextLinesOfCall) :
             WithinWindow(Lines(content), ContextLinesOfCall[k],
                          LinesFrom(Lines(content), ContextLinesOfCall[k],
                                    ContextLinesOfCall[k]))
       /\ Len(BuildLinesToSearch(Lines(content), ContextLinesOfCall))
              <= SearchWindow * Len(ContextLinesOfCall)
       /\ \A k \in 1..Len(result.matches) :
             LineOfOffset(Lines(content), result.matches[k].from)
                 \in Range(BuildLinesToSearch(Lines(content), ContextLinesOfCall))

\* a context line followed by more than 20 lines without content: 20 lines are
\* searched, and the marks of the quad-backed scan are on them
C19_Witness ==
    /\ ContextFound
    /\ LineCount(Lines(content)) > MaxDocumentLines
    /\ Len(ContextLinesOfCall) = 1
    /\ Len(BuildLinesToSearch(Lines(content), ContextLinesOfCall)) = SearchWindow
    /\ result.steps = <<"quads">>
    /\ Len(result.matches) > 0

\* the terms the predicate matchers of the call are given: the term, and
\* without context also the terms of the later steps of the chain
MatcherTerms == IF Truthy(highlightContext) THEN {highlightTerm} ELSE ChainTerms(highlightTerm)

\* a prefixed name: a label, a colon, a local name; no bracket, no quote
PrefixedName(v) ==
    /\ IndexOf(v, ":", 0) > 0
    /\ CharAt(v, 0) \notin {"<", "\""}

\* the spelling is the bracketed or quoted term, a prefixed name or a quoted
\* prefixed name, and not the local name alone
PredicateForm(v, term) ==
    /\ v # LocalPart(term)
    /\ \/ v = "<" \o term \o ">"
       \/ v = "\"" \o term \o "\""
       \/ PrefixedName(v)
       \/ /\ Len(v) > 2
          /\ CharAt(v, 0) = "\"" /\ CharAt(v, Len(v) - 1) = "\""
          /\ PrefixedName(Substring(v, 1, Len(v) - 1))

\* the spellings under the prefixes guessed for the well-known vocabularies
GuessedSpellings(term) ==
    UNION {{g \o LocalPart(term), "\"" \o g \o LocalPart(term) \o "\""} :
           g \in {"schema:", "sdo:", "dc:", "dct:"}}

\* the ranges of the result were marked by a predicate matcher
MarkedByPredicateMatcher ==
    IF Truthy(highlightContext)
    THEN model = "dataGraph" /\ ~Ran("anchor")
    ELSE Ran("predicate")

\* C20: no predicate matcher searches for the local name alone: every spelling
\* of the quad-backed and of the text-fallback matchers is the bracketed or
\* quoted term, a prefixed name or a quoted prefixed name; the bracketed term is
\* always among them; the quad-backed spellings hold no guessed conventional
\* prefix; and no range a predicate matcher returns covers the local name alone.
C20_NoBareLocalName ==
    Called
    => /\ \A t \in MatcherTerms :
             /\ \A v \in Range(GetPredicateStringsFromQuads(t, highlightContext))
                         \cup Range(FallbackSearchVariants(t)) : PredicateForm(v, t)
             /\ ("<" \o t \o ">") \in Range(FallbackSearchVariants(t))
             /\ Len(GetPredicateStringsFromQuads(t, highlightContext)) > 0
                    => ("<" \o t \o ">")
                           \in Range(GetPredicateStringsFromQuads(t, highlightContext))
             /\ Range(GetPredicateStringsFromQuads(t, highlightContext))
                    \cap GuessedSpellings(t) = {}
       /\ MarkedByPredicateMatcher
              => \A k \in 1..Len(result.matches) :
                    Substring(content, result.matches[k].from, result.matches[k].to)
                        \notin {LocalPart(t) : t \in MatcherTerms}

\* the quads hold the predicate: the quad-backed matcher marks the bracketed
\* IRI and neither the guessed prefixed names nor the bare local name that
\* the text also holds
C20_Witness ==
    /\ Called
    /\ ~Truthy(highlightContext)
    /\ Len(GetPredicateStringsFromQuads(highlightTerm, Null)) > 0
    /\ Occurrences(content, "schema:n") # {}
    /\ Occurrences(content, " n ") # {}
    /\ result.steps = <<"subject", "predicate">>
    /\ Len(result.matches) = 1
    /\ Substring(content, result.matches[1].from, result.matches[1].to)
           = "<" \o SchemaTerm \o ">"

\* what _applyHighlight returns for the properties the editor has now
ResultForProperties ==
    IF ~Truthy(highlightTerm) THEN EmptyResult
    ELSE Locate(content, highlightTerm, highlightContext)

\* C21: every highlight request dispatched to the store, also one dispatched
\* immediately after another, changes the timestamp the editor observes and so
\* makes the ready editor run _applyHighlight again for that request: once the
\* editor has applied a request and its update cycle has run, the ranges it
\* shows are those of the request dispatched last.
C21_EveryRequestApplied ==
    (applySeq >= 1 /\ ~updatePending) => result.matches = ResultForProperties.matches

\* the spellings of a path value: bracketed IRI, prefixed name, guessed names
PathValueSpellings(term) ==
    {"<" \o term \o ">"}
    \cup (IF Shrink(term) # "" /\ Shrink(term) # term THEN {Shrink(term)} ELSE {})
    \cup Range(AlternativeForms(term, Shrink(term), LocalPart(term)))

\* the text ends with the path predicate at offset i
PathPredicateBefore(text, i) ==
    \/ (i >= Len(ShPath) /\ Substring(text, i - Len(ShPath), i) = ShPath)
    \/ (i >= Len(ShaclPathIri) /\ Substring(text, i - Len(ShaclPathIri), i) = ShaclPathIri)

\* C22: in the shapes-path strategy every marked range covers exactly the
\* spelling of the path value that follows the path predicate, and no part of
\* the path predicate itself, for every path term, also one spelled like the
\* path predicate.
C22_ShapePathMarksValueOnly ==
    (Called /\ model = "shapesGraph" /\ Truthy(highlightContext))
    => \A k \in 1..Len(result.matches) :
          /\ Substring(content, result.matches[k].from, result.matches[k].to)
                 \in PathValueSpellings(highlightTerm)
          /\ PathPredicateBefore(content, result.matches[k].from)

\* C23: an _applyHighlight call whose locate call ends with zero ranges, or
\* whose request has no term, leaves the editor without highlight marks, does
\* not move the caret, schedules no scroll and leaves the scroll position of
\* the container as it was.
C23_EmptyResultChangesNothing ==
    [][(applySeq' = applySeq + 1 /\ Len(result'.matches) = 0)
        => /\ docMarks' = {}
           /\ highlightMarkers' = <<>>
           /\ cursor' = cursor
           /\ timers' = timers
           /\ scrollLockTimeout' = scrollLockTimeout
           /\ scrollTop' = scrollTop]_vars

\* a second request with a term that is not found has been applied after a
\* first one that made marks, moved the caret and scheduled its scrolls
C23_Witness ==
    /\ applySeq = 2
    /\ Truthy(highlightTerm)
    /\ Len(result.matches) = 0
    /\ docMarks = {}
    /\ cursor >= 0
    /\ Cardinality(timers) = 3
    /\ \A t \in timers : t.req = 1

\* C24: no two ranges of the result of a locate call overlap: each occurrence
\* of the term gives at most one range, also when several spellings of the
\* term match at overlapping offsets.
C24_NoOverlappingRanges ==
    Called => \A j, k \in 1..Len(result.matches) :
                  j # k => \/ result.matches[j].to <= result.matches[k].from
                           \/ result.matches[k].to <= result.matches[j].from

====
